---------------------------- MODULE Spec2Model ----------------------------
(***************************************************************************)
(* A model of the valora sketch runtime (src/src/sketch.rs): the run loop  *)
(* `sketch` and the per-frame draw queue `Canvas`. Spec is one run of the  *)
(* loop; SpecDet composes two runs fed the same input. SpecPaint is the     *)
(* Paint composition of src/src/paint.rs: a path-event producer under      *)
(* Filled and Stroked decorators, painted onto a canvas.                   *)
(*                                                                         *)
(* Option<T> is modelled as a sequence of length at most one: <<>> is      *)
(* None and <<x>> is Some(x).                                              *)
(***************************************************************************)
EXTENDS Integers, Sequences, FiniteSets, TLC

(***************************************************************************)
(* Bounds of the model.                                                    *)
(***************************************************************************)
\* The input source yields at most MaxIter batches before it closes or fails.
MaxIter == 3
\* A batch holds at most MaxBatch window events.
MaxBatch == 1
\* A sketch's draw makes at most MaxCalls calls of Canvas::draw per frame.
MaxCalls == 2
\* A path-event producer yields at most MaxPath events.
MaxPath == 2
\* A Paint value is a producer under at most MaxNest decorators.
MaxNest == 2
\* A Paint value is painted at most MaxPaints times.
MaxPaints == 2

(***************************************************************************)
(* Value domains.                                                          *)
(***************************************************************************)
\* Values `random()` can return, and the seeds a configuration can name.
Seeds == {7, 42}
CfgSeeds == {42}
\* Window events: "r" is ReceivedCharacter('r'), "x" is any other event.
Events == {"r", "x"}
Shaders == {"s1", "s2"}
Shapes == {"square"}
\* Capture roots a configuration can name.
Roots == {"out"}

None == <<>>
Some(x) == <<x>>
IsSome(o) == Len(o) = 1
IsNone(o) == Len(o) = 0
Unwrap(o) == o[1]

RECURSIVE SeqsUpTo(_, _)
SeqsUpTo(S, n) ==
    IF n = 0 THEN {<<>>}
    ELSE LET shorter == SeqsUpTo(S, n - 1)
         IN shorter \cup {Append(s, e) : s \in {t \in shorter : Len(t) = n - 1}, e \in S}

\* The batches of events the input source can yield.
Batches == SeqsUpTo(Events, MaxBatch)

\* SketchCfg: the size is fixed, the capture root and the seed are optional.
SketchCfg ==
    [size : {400},
     root_frame_filename : {None} \cup {Some(r) : r \in Roots},
     seed : {None} \cup {Some(s) : s \in CfgSeeds}]

\* A variant of StartSeed: the configured seed is ignored.
StartSeedRandom(cfg_seed, r) == r
\* Line 56: cfg.seed.unwrap_or(random()), r being the value random() returned.
StartSeed(cfg_seed, r) == IF IsSome(cfg_seed) THEN Unwrap(cfg_seed) ELSE r

\* StdRng::from_seed(&[seed]): the generator state is a function of the seed
\* alone; `draws` counts the values taken from it since.
FromSeed(seed) == [seed |-> seed, draws |-> 0]

\* The sketch value handed to `sketch` by its caller.
CallerSketch == [by |-> "caller", frame |-> 0, seed |-> 0, events |-> <<>>]
\* The value a sketch's seed(ctx) returns: it may depend on the context.
SeededSketch(ctx) ==
    [by |-> "seed", frame |-> ctx.frame, seed |-> ctx.current_seed, events |-> <<>>]
\* The value an overridden step(ctx, events) returns as continuation.
SteppedSketch(ctx, evs) ==
    [by |-> "step", frame |-> ctx.frame, seed |-> ctx.current_seed, events |-> evs]

\* The `find` of lines 63-69: some event of the batch is ReceivedCharacter('r').
HasReseed(evs) == \E i \in 1..Len(evs) : evs[i] = "r"

\* t.tessellate(shader): the mesh of a shape under a shader. `canvas` is the
\* number of the canvas the mesh was made for (the identity of the object).
Tessellate(t, shader, n) == [shape |-> t, shader |-> shader, canvas |-> n]

\* Canvas::new
CanvasNew == [queue |-> <<>>]
\* A variant of CanvasPush: the entry is put at the head of the queue.
CanvasPushFront(c, shader, tess) == [c EXCEPT !.queue = <<<<shader, tess>>>> \o c.queue]
\* Canvas::draw with a successful tessellation: push (shader, tessellation).
CanvasPush(c, shader, tess) == [c EXCEPT !.queue = Append(c.queue, <<shader, tess>>)]
\* Canvas::drain: the queue, by value.
CanvasDrain(c) == c.queue

\* format!("{}/{:14}/", root, seed): the directory is determined by the root
\* and the seed, and two seeds never share a directory.
SavesDir(root, seed) == <<root, seed>>

\* Nothing has been handed to pipeline.draw in this iteration.
NoSubmit == [canvas |-> 0, queue |-> <<>>]
\* The sketch's draw has not been called in this iteration.
NoDraw == [draw |-> 0, frame |-> 0, current_seed |-> 0, rng |-> [seed |-> 0, draws |-> 0],
           sketch |-> [by |-> "caller", frame |-> 0, seed |-> 0, events |-> <<>>]]

VARIABLES
    pc,          \* position of `sketch` in its body
    context,     \* SketchContext {cfg, frame, rng, current_seed}
    sketch_bin,  \* Option<S>: the loop's sketch slot
    overrides,   \* whether the sketch type overrides Sketch::step
    cycle,       \* Result<Option<(Pipeline, events)>>
    events,      \* the batch bound by the `while let` pattern
    canvas,      \* Option<Canvas>: the canvas being built by the sketch's draw
    okCalls,     \* history: arguments of this iteration's successful Canvas::draw calls
    result,      \* "none" while running, then "Ok" or "Err"
    failedOp,    \* history: the operation whose failure ended the run
    polled,      \* history: batches the input source has yielded
    iters,       \* history: completed iterations (executions of line 88)
    reseeds,     \* history: batches holding the reseed input that entered the loop
    draws,       \* history: invocations of the sketch's draw
    handed,      \* history: invocations of pipeline.draw
    submits,     \* history: invocations of pipeline.draw that returned Ok
    frameSubmit, \* history: the queue this iteration's pipeline.draw was called with
    drawCtx,     \* history: which draw this iteration made, and what it observed
    dirs,        \* history: directories fs::create_dir_all has made
    mkdirs,      \* history: invocations of fs::create_dir_all
    saved,       \* history: the (directory, frame) of each save_frame that returned Ok
    drawn,       \* history: the value the latest random() returned
    run,         \* which of two runs of `sketch` these variables belong to
    other,       \* the variables of the other of the two runs
    painted,     \* the Paint value `self` of the outermost paint call
    comp,        \* the canvas painted on: the commands issued, the active thickness
    iter,        \* the clone of the producer that for_each consumes (line 44)
    depth,       \* the number of decorators whose paint is in progress
    ppc,         \* position of the paint call in progress
    paints,      \* history: outermost paint calls that returned
    mark,        \* history: the commands issued before the latest outermost call
    lastRet      \* history: the commands of the outermost call when a paint last returned

paintVars == <<painted, comp, iter, depth, ppc, paints, mark, lastRet>>

vars == <<pc, context, sketch_bin, overrides, cycle, events, canvas, okCalls,
          result, failedOp, polled, iters, reseeds, draws, handed,
          submits, frameSubmit, drawCtx, dirs, mkdirs, saved, drawn,
          run, other, paintVars>>

loopVars == <<context, sketch_bin, cycle, events>>
canvasVars == <<canvas, okCalls>>
histVars == <<polled, iters, reseeds, draws, handed, submits, frameSubmit,
              drawCtx, dirs, mkdirs, saved, drawn>>
detVars == <<run, other>>

\* Lines 54-59: the state `sketch` starts from, for the configuration c and
\* the value r that random() returns at line 56. The bindings of lines 56-59
\* are made from the arguments alone, before anything can observe them.
StartState(c, r) ==
    LET current_seed == StartSeed(c.seed, r)
    IN [pc |-> "new",
        context |-> [cfg |-> c, frame |-> 0, rng |-> FromSeed(current_seed),
                     current_seed |-> current_seed],
        sketch_bin |-> Some(CallerSketch),
        cycle |-> [tag |-> "None", events |-> <<>>],
        events |-> <<>>,
        canvas |-> None,
        okCalls |-> <<>>,
        result |-> "none",
        failedOp |-> "none",
        polled |-> 0,
        iters |-> 0,
        reseeds |-> 0,
        draws |-> 0,
        handed |-> 0,
        submits |-> 0,
        frameSubmit |-> NoSubmit,
        drawCtx |-> NoDraw,
        dirs |-> {},
        mkdirs |-> 0,
        saved |-> <<>>,
        drawn |-> r]

\* The variables of one run, as a record.
RunState ==
    [pc |-> pc, context |-> context, sketch_bin |-> sketch_bin, cycle |-> cycle,
     events |-> events, canvas |-> canvas, okCalls |-> okCalls, result |-> result,
     failedOp |-> failedOp, polled |-> polled, iters |-> iters, reseeds |-> reseeds,
     draws |-> draws, handed |-> handed, submits |-> submits,
     frameSubmit |-> frameSubmit, drawCtx |-> drawCtx, dirs |-> dirs,
     mkdirs |-> mkdirs, saved |-> saved, drawn |-> drawn]

\* The run starts from the state st; a second run of the same sketch type
\* and configuration, not yet started, is in the state st2.
InitWith(st, st2) ==
    /\ pc = st.pc
    /\ context = st.context
    /\ sketch_bin = st.sketch_bin
    /\ overrides \in BOOLEAN
    /\ cycle = st.cycle
    /\ events = st.events
    /\ canvas = st.canvas
    /\ okCalls = st.okCalls
    /\ result = st.result
    /\ failedOp = st.failedOp
    /\ polled = st.polled
    /\ iters = st.iters
    /\ reseeds = st.reseeds
    /\ draws = st.draws
    /\ handed = st.handed
    /\ submits = st.submits
    /\ frameSubmit = st.frameSubmit
    /\ drawCtx = st.drawCtx
    /\ dirs = st.dirs
    /\ mkdirs = st.mkdirs
    /\ saved = st.saved
    /\ drawn = st.drawn
    /\ run = 1
    /\ other = st2

\* A Paint value: a producer of path events under decorators, outermost first.
PaintValue(decor, path) == [decor |-> decor, path |-> path]
\* A canvas nothing was painted on.
NewComp == [cmds |-> <<>>, stroke_thickness |-> None]

\* No Paint value is painted: sketch.rs never calls paint.
NoPaint ==
    /\ painted = PaintValue(<<>>, <<>>)
    /\ comp = NewComp
    /\ iter = <<>>
    /\ depth = 0
    /\ ppc = "none"
    /\ paints = 0
    /\ mark = 0
    /\ lastRet = <<>>

Init ==
    /\ \E c \in SketchCfg, r \in Seeds : InitWith(StartState(c, r), StartState(c, r))
    /\ NoPaint

\* A `?` on an Err: the function returns the failure at once.
Fail(op) ==
    /\ pc' = "done"
    /\ result' = "Err"
    /\ failedOp' = op

\* pipeline.events(): the next batch, end-of-stream, or a failure.
PollOutcome(c) ==
    \/ /\ polled < MaxIter
       /\ \E b \in Batches : c = [tag |-> "Some", events |-> b]
    \/ c = [tag |-> "None", events |-> <<>>]
    \/ c = [tag |-> "Err", events |-> <<>>]

\* Line 55: Pipeline::new(cfg.size)?
PipelineNew ==
    /\ pc = "new"
    /\ \/ /\ pc' = "events"
          /\ UNCHANGED <<result, failedOp>>
       \/ Fail("new")
    /\ UNCHANGED <<loopVars, overrides, canvasVars, histVars>>

\* Line 61: let mut cycle = pipeline.events();
FirstEvents ==
    /\ pc = "events"
    /\ \E c \in [tag : {"Some", "None", "Err"}, events : Batches] :
          /\ PollOutcome(c)
          /\ cycle' = c
          /\ polled' = IF c.tag = "Some" THEN polled + 1 ELSE polled
    /\ pc' = "while"
    /\ UNCHANGED <<context, sketch_bin, events, overrides, canvasVars, result,
                   failedOp, iters, reseeds, draws, handed, submits,
                   frameSubmit, drawCtx, dirs, mkdirs, saved, drawn>>

\* Line 62: the pattern Ok(Some((pipeline, events))) matches: enter the body.
WhileEnter ==
    /\ pc = "while"
    /\ cycle.tag = "Some"
    /\ events' = cycle.events
    /\ reseeds' = IF HasReseed(cycle.events) THEN reseeds + 1 ELSE reseeds
    /\ pc' = "check"
    /\ UNCHANGED <<context, sketch_bin, cycle, overrides, canvasVars, result,
                   failedOp, polled, iters, draws, handed, submits, frameSubmit,
                   drawCtx, dirs, mkdirs, saved, drawn>>

\* Line 62: the pattern does not match (Ok(None) or Err): leave the loop.
WhileExit ==
    /\ pc = "while"
    /\ cycle.tag # "Some"
    /\ pc' = "return"
    /\ UNCHANGED <<loopVars, overrides, canvasVars, result, failedOp,
                   histVars>>

\* A variant of Return: the function ends with Ok(()) whatever `cycle` holds.
ReturnOk ==
    /\ pc = "return"
    /\ pc' = "done"
    /\ result' = "Ok"
    /\ failedOp' = IF cycle.tag = "Err" THEN "events" ELSE failedOp
    /\ UNCHANGED <<loopVars, overrides, canvasVars, histVars>>

\* Line 90: cycle.map(|_| ())
Return ==
    /\ pc = "return"
    /\ pc' = "done"
    /\ result' = IF cycle.tag = "Err" THEN "Err" ELSE "Ok"
    /\ failedOp' = IF cycle.tag = "Err" THEN "events" ELSE failedOp
    /\ UNCHANGED <<loopVars, overrides, canvasVars, histVars>>

\* A variant of Reseed: the sketch's seed is called before the context is updated.
ReseedStaleContext ==
    /\ pc = "check"
    /\ HasReseed(events)
    /\ \E s \in Seeds :
          LET ctx == [context EXCEPT !.current_seed = s, !.rng = FromSeed(s), !.frame = 0]
          IN /\ context' = ctx
             /\ drawn' = s
             /\ \/ /\ sketch_bin' = Some(SeededSketch(context))
                   /\ pc' = "draw"
                   /\ UNCHANGED <<result, failedOp>>
                \/ /\ Fail("seed")
                   /\ UNCHANGED sketch_bin
    /\ UNCHANGED <<cycle, events, overrides, canvasVars, polled, iters, reseeds,
                   draws, handed, submits, frameSubmit, drawCtx, dirs, mkdirs, saved>>

\* A variant of Reseed: the seed is replaced and the RNG is left as it was.
ReseedKeepsRng ==
    /\ pc = "check"
    /\ HasReseed(events)
    /\ \E s \in Seeds :
          LET ctx == [context EXCEPT !.current_seed = s, !.frame = 0]
          IN /\ context' = ctx
             /\ drawn' = s
             /\ \/ /\ sketch_bin' = Some(SeededSketch(ctx))
                   /\ pc' = "draw"
                   /\ UNCHANGED <<result, failedOp>>
                \/ /\ Fail("seed")
                   /\ UNCHANGED sketch_bin
    /\ UNCHANGED <<cycle, events, overrides, canvasVars, polled, iters, reseeds,
                   draws, handed, submits, frameSubmit, drawCtx, dirs, mkdirs, saved>>

\* Lines 63-74, the batch holds 'r': a fresh seed, the RNG from it, frame 0,
\* then the sketch's seed with the updated context.
Reseed ==
    /\ pc = "check"
    /\ HasReseed(events)
    /\ \E s \in Seeds :
          LET ctx == [context EXCEPT !.current_seed = s, !.rng = FromSeed(s), !.frame = 0]
          IN /\ context' = ctx
             /\ drawn' = s
             /\ \/ /\ sketch_bin' = Some(SeededSketch(ctx))
                   /\ pc' = "draw"
                   /\ UNCHANGED <<result, failedOp>>
                \/ /\ Fail("seed")
                   /\ UNCHANGED sketch_bin
    /\ UNCHANGED <<cycle, events, overrides, canvasVars, polled, iters, reseeds,
                   draws, handed, submits, frameSubmit, drawCtx, dirs, mkdirs, saved>>

\* Lines 63-74, the batch holds no 'r': nothing happens.
NoReseed ==
    /\ pc = "check"
    /\ ~HasReseed(events)
    /\ pc' = "draw"
    /\ UNCHANGED <<loopVars, overrides, canvasVars, result, failedOp,
                   histVars>>

\* Line 76: sketch_bin.as_ref().unwrap().draw(&context) is entered; the sketch
\* starts from a fresh canvas (line 27).
DrawBegin ==
    /\ pc = "draw"
    /\ IsSome(sketch_bin)
    /\ canvas' = Some(CanvasNew)
    /\ draws' = draws + 1
    /\ drawCtx' = [draw |-> draws + 1, frame |-> context.frame,
                   current_seed |-> context.current_seed, rng |-> context.rng,
                   sketch |-> Unwrap(sketch_bin)]
    /\ pc' = "drawing"
    /\ UNCHANGED <<loopVars, overrides, okCalls, result, failedOp, polled,
                   iters, reseeds, handed, submits, frameSubmit, dirs, mkdirs, saved,
                   drawn>>

\* Lines 29-31: Canvas::draw(shader, t): the tessellation is pushed when it
\* succeeds; when it fails the `?` returns before the push.
CanvasDraw ==
    /\ pc = "drawing"
    /\ IsSome(canvas)
    /\ Len(okCalls) < MaxCalls
    /\ \E shader \in Shaders, t \in Shapes :
          \/ /\ canvas' = Some(CanvasPush(Unwrap(canvas), shader, Tessellate(t, shader, draws)))
             /\ okCalls' = Append(okCalls, <<shader, t>>)
          \/ UNCHANGED <<canvas, okCalls>>
    /\ UNCHANGED <<pc, loopVars, overrides, result, failedOp, histVars>>

\* A variant of DrawOk: the returned canvas is dropped and never handed to
\* pipeline.draw.
DrawOkSkipsSubmit ==
    /\ pc = "drawing"
    /\ canvas' = None
    /\ pc' = "step"
    /\ UNCHANGED <<loopVars, overrides, okCalls, result, failedOp, histVars>>

\* Line 76: the sketch's draw returns Ok(canvas).
DrawOk ==
    /\ pc = "drawing"
    /\ pc' = "submit"
    /\ UNCHANGED <<loopVars, overrides, canvasVars, result, failedOp,
                   histVars>>

\* A variant of DrawErr: the failure is noted and the canvas built so far is
\* submitted all the same.
DrawErrSubmitsPartial ==
    /\ pc = "drawing"
    /\ pc' = "submit"
    /\ failedOp' = "draw"
    /\ UNCHANGED <<loopVars, overrides, canvasVars, result, histVars>>

\* Line 76: the sketch's draw returns Err (a failed tessellation it passes on,
\* or a failure of its own); the canvas is dropped.
DrawErr ==
    /\ pc = "drawing"
    /\ canvas' = None
    /\ Fail("draw")
    /\ UNCHANGED <<loopVars, overrides, okCalls, histVars>>

\* A variant of Submit: a failed pipeline.draw is dropped and the iteration goes on.
SubmitIgnoresErr ==
    /\ pc = "submit"
    /\ IsSome(canvas)
    /\ frameSubmit' = [canvas |-> draws, queue |-> CanvasDrain(Unwrap(canvas))]
    /\ canvas' = None
    /\ handed' = handed + 1
    /\ pc' = "step"
    /\ \/ /\ submits' = submits + 1
          /\ UNCHANGED failedOp
       \/ /\ failedOp' = "submit"
          /\ UNCHANGED submits
    /\ UNCHANGED <<loopVars, overrides, okCalls, result, polled, iters, reseeds, draws,
                   drawCtx, dirs, mkdirs, saved, drawn>>

\* A variant of Submit: the queue is copied out and the canvas stays alive.
SubmitKeepsCanvas ==
    /\ pc = "submit"
    /\ IsSome(canvas)
    /\ frameSubmit' = [canvas |-> draws, queue |-> CanvasDrain(Unwrap(canvas))]
    /\ handed' = handed + 1
    /\ \/ /\ submits' = submits + 1
          /\ pc' = "step"
          /\ UNCHANGED <<result, failedOp>>
       \/ /\ Fail("submit")
          /\ UNCHANGED submits
    /\ UNCHANGED <<loopVars, overrides, canvasVars, polled, iters, reseeds, draws,
                   drawCtx, dirs, mkdirs, saved, drawn>>

\* Lines 75-76: pipeline.draw(canvas.drain())?
Submit ==
    /\ pc = "submit"
    /\ IsSome(canvas)
    /\ frameSubmit' = [canvas |-> draws, queue |-> CanvasDrain(Unwrap(canvas))]
    /\ canvas' = None
    /\ handed' = handed + 1
    /\ \/ /\ submits' = submits + 1
          /\ pc' = "step"
          /\ UNCHANGED <<result, failedOp>>
       \/ /\ Fail("submit")
          /\ UNCHANGED submits
    /\ UNCHANGED <<loopVars, overrides, okCalls, polled, iters, reseeds, draws,
                   drawCtx, dirs, mkdirs, saved, drawn>>

\* A variant of StepDefault: the default step gives no continuation.
StepDefaultEnds ==
    /\ pc = "step"
    /\ ~overrides
    /\ IsSome(sketch_bin)
    /\ sketch_bin' = None
    /\ pc' = "capture"
    /\ UNCHANGED <<context, cycle, events, overrides, canvasVars, result, failedOp, histVars>>

\* Line 77 with the default Sketch::step (lines 38-43): Ok(Some(self)).
StepDefault ==
    /\ pc = "step"
    /\ ~overrides
    /\ IsSome(sketch_bin)
    /\ sketch_bin' = Some(Unwrap(sketch_bin))
    /\ pc' = "capture"
    /\ UNCHANGED <<context, cycle, events, overrides, canvasVars, result, failedOp, histVars>>

\* Line 77 with an overriding step: a continuation, no continuation, or Err.
StepOverride ==
    /\ pc = "step"
    /\ overrides
    /\ IsSome(sketch_bin)
    /\ \/ /\ sketch_bin' \in {Some(Unwrap(sketch_bin)), Some(SteppedSketch(context, events)), None}
          /\ pc' = "capture"
          /\ UNCHANGED <<result, failedOp>>
       \/ /\ Fail("step")
          /\ UNCHANGED sketch_bin
    /\ UNCHANGED <<context, cycle, events, overrides, canvasVars, histVars>>

\* Line 78: no capture root is configured.
NoCapture ==
    /\ pc = "capture"
    /\ IsNone(context.cfg.root_frame_filename)
    /\ pc' = "next"
    /\ UNCHANGED <<loopVars, overrides, canvasVars, result, failedOp,
                   histVars>>

\* A variant of CreateDir: the frame of the iteration whose step gave no
\* continuation is not captured.
CreateDirUnlessEnding ==
    /\ pc = "capture"
    /\ IsSome(context.cfg.root_frame_filename)
    /\ IF IsNone(sketch_bin)
       THEN /\ pc' = "next"
            /\ UNCHANGED <<mkdirs, dirs, result, failedOp>>
       ELSE /\ mkdirs' = mkdirs + 1
            /\ \/ /\ dirs' = dirs \cup {SavesDir(Unwrap(context.cfg.root_frame_filename),
                                                  context.current_seed)}
                  /\ pc' = "save"
                  /\ UNCHANGED <<result, failedOp>>
               \/ /\ Fail("create_dir")
                  /\ UNCHANGED dirs
    /\ UNCHANGED <<loopVars, overrides, canvasVars, polled, iters, reseeds, draws,
                   handed, submits, frameSubmit, drawCtx, saved, drawn>>

\* Lines 78-80: fs::create_dir_all(&saves_dir)?
CreateDir ==
    /\ pc = "capture"
    /\ IsSome(context.cfg.root_frame_filename)
    /\ mkdirs' = mkdirs + 1
    /\ \/ /\ dirs' = dirs \cup {SavesDir(Unwrap(context.cfg.root_frame_filename),
                                         context.current_seed)}
          /\ pc' = "save"
          /\ UNCHANGED <<result, failedOp>>
       \/ /\ Fail("create_dir")
          /\ UNCHANGED dirs
    /\ UNCHANGED <<loopVars, overrides, canvasVars, polled, iters, reseeds, draws,
                   handed, submits, frameSubmit, drawCtx, saved, drawn>>

\* A variant of SaveFrame: the frame is saved under the index of the next frame.
SaveFrameNextIndex ==
    /\ pc = "save"
    /\ \/ /\ saved' = Append(saved,
                             <<SavesDir(Unwrap(context.cfg.root_frame_filename),
                                        context.current_seed), context.frame + 1>>)
          /\ pc' = "next"
          /\ UNCHANGED <<result, failedOp>>
       \/ /\ Fail("save_frame")
          /\ UNCHANGED saved
    /\ UNCHANGED <<loopVars, overrides, canvasVars, polled, iters, reseeds, draws,
                   handed, submits, frameSubmit, drawCtx, dirs, mkdirs, drawn>>

\* Line 81: pipeline.save_frame(&saves_dir, context.frame)?
SaveFrame ==
    /\ pc = "save"
    /\ \/ /\ saved' = Append(saved,
                             <<SavesDir(Unwrap(context.cfg.root_frame_filename),
                                        context.current_seed), context.frame>>)
          /\ pc' = "next"
          /\ UNCHANGED <<result, failedOp>>
       \/ /\ Fail("save_frame")
          /\ UNCHANGED saved
    /\ UNCHANGED <<loopVars, overrides, canvasVars, polled, iters, reseeds, draws,
                   handed, submits, frameSubmit, drawCtx, dirs, mkdirs, drawn>>

\* A variant of NextEvents: the counter is raised before the poll, and again
\* at the end of the body.
NextEventsAfterIncrement ==
    /\ pc = "next"
    /\ IsSome(sketch_bin)
    /\ context' = [context EXCEPT !.frame = context.frame + 1]
    /\ \E c \in [tag : {"Some", "None", "Err"}, events : Batches] :
          /\ PollOutcome(c)
          /\ cycle' = c
          /\ polled' = IF c.tag = "Some" THEN polled + 1 ELSE polled
    /\ pc' = "tick"
    /\ UNCHANGED <<sketch_bin, events, overrides, canvasVars, result,
                   failedOp, iters, reseeds, draws, handed, submits,
                   frameSubmit, drawCtx, dirs, mkdirs, saved, drawn>>

\* Lines 83-84: the slot holds a sketch: poll the input source again.
NextEvents ==
    /\ pc = "next"
    /\ IsSome(sketch_bin)
    /\ \E c \in [tag : {"Some", "None", "Err"}, events : Batches] :
          /\ PollOutcome(c)
          /\ cycle' = c
          /\ polled' = IF c.tag = "Some" THEN polled + 1 ELSE polled
    /\ pc' = "tick"
    /\ UNCHANGED <<context, sketch_bin, events, overrides, canvasVars, result,
                   failedOp, iters, reseeds, draws, handed, submits,
                   frameSubmit, drawCtx, dirs, mkdirs, saved, drawn>>

\* A variant of NextNone: the input source is polled although step gave no
\* continuation.
NextNonePolls ==
    /\ pc = "next"
    /\ IsNone(sketch_bin)
    /\ \E c \in [tag : {"Some", "None", "Err"}, events : Batches] :
          /\ PollOutcome(c)
          /\ cycle' = c
          /\ polled' = IF c.tag = "Some" THEN polled + 1 ELSE polled
    /\ pc' = "tick"
    /\ UNCHANGED <<context, sketch_bin, events, overrides, canvasVars, result,
                   failedOp, iters, reseeds, draws, handed, submits,
                   frameSubmit, drawCtx, dirs, mkdirs, saved, drawn>>

\* Lines 83-85: step gave no continuation: cycle = Ok(None), no poll.
NextNone ==
    /\ pc = "next"
    /\ IsNone(sketch_bin)
    /\ cycle' = [tag |-> "None", events |-> <<>>]
    /\ pc' = "tick"
    /\ UNCHANGED <<context, sketch_bin, events, overrides, canvasVars, result,
                   failedOp, histVars>>

\* A variant of Tick: the counter is raised only when another iteration follows.
TickOnlyIfContinuing ==
    /\ pc = "tick"
    /\ context' = IF cycle.tag = "Some"
                  THEN [context EXCEPT !.frame = context.frame + 1]
                  ELSE context
    /\ iters' = iters + 1
    /\ events' = <<>>
    /\ okCalls' = <<>>
    /\ frameSubmit' = NoSubmit
    /\ drawCtx' = NoDraw
    /\ pc' = "while"
    /\ UNCHANGED <<sketch_bin, cycle, overrides, canvas, result, failedOp, polled,
                   reseeds, draws, handed, submits, dirs, mkdirs, saved, drawn>>

\* Lines 87-89: thread::sleep(16 ms); context.frame += 1; the body ends, and
\* with it the iteration's batch and the records of its draw and submission.
Tick ==
    /\ pc = "tick"
    /\ context' = [context EXCEPT !.frame = context.frame + 1]
    /\ iters' = iters + 1
    /\ events' = <<>>
    /\ okCalls' = <<>>
    /\ frameSubmit' = NoSubmit
    /\ drawCtx' = NoDraw
    /\ pc' = "while"
    /\ UNCHANGED <<sketch_bin, cycle, overrides, canvas, result, failedOp, polled,
                   reseeds, draws, handed, submits, dirs, mkdirs, saved, drawn>>

\* A single run: the records of a first run are never written.
Next ==
    \/ PipelineNew /\ UNCHANGED <<detVars, paintVars>>
    \/ FirstEvents /\ UNCHANGED <<detVars, paintVars>>
    \/ WhileEnter /\ UNCHANGED <<detVars, paintVars>>
    \/ WhileExit /\ UNCHANGED <<detVars, paintVars>>
    \/ Return /\ UNCHANGED <<detVars, paintVars>>
    \/ Reseed /\ UNCHANGED <<detVars, paintVars>>
    \/ NoReseed /\ UNCHANGED <<detVars, paintVars>>
    \/ DrawBegin /\ UNCHANGED <<detVars, paintVars>>
    \/ CanvasDraw /\ UNCHANGED <<detVars, paintVars>>
    \/ DrawOk /\ UNCHANGED <<detVars, paintVars>>
    \/ DrawErr /\ UNCHANGED <<detVars, paintVars>>
    \/ Submit /\ UNCHANGED <<detVars, paintVars>>
    \/ StepDefault /\ UNCHANGED <<detVars, paintVars>>
    \/ StepOverride /\ UNCHANGED <<detVars, paintVars>>
    \/ NoCapture /\ UNCHANGED <<detVars, paintVars>>
    \/ CreateDir /\ UNCHANGED <<detVars, paintVars>>
    \/ SaveFrame /\ UNCHANGED <<detVars, paintVars>>
    \/ NextEvents /\ UNCHANGED <<detVars, paintVars>>
    \/ NextNone /\ UNCHANGED <<detVars, paintVars>>
    \/ Tick /\ UNCHANGED <<detVars, paintVars>>

Spec == Init /\ [][Next]_vars


(***************************************************************************)
(* Two runs of `sketch` with the same configuration, the same sketch type  *)
(* and the same input. The runs share nothing, so they are interleaved at  *)
(* iteration boundaries: the first run makes an iteration's body, then the *)
(* second makes the same iteration. The variables are those of the run     *)
(* whose turn it is; `other` holds those of the run that waits. The input  *)
(* source                                                                  *)
(* yields the same batches to both, and the sketch, a pure function of its *)
(* arguments, returns in one run what it returned in the other whenever it *)
(* is given the same arguments. No batch holds the reseed input. The       *)
(* backend and the file system fail independently in the two runs. A run   *)
(* stops at the head of the loop once the other has returned and has made  *)
(* no draw that this run has yet to make: nothing is left to compare.      *)
(***************************************************************************)
IsPrefix(a, b) == Len(a) <= Len(b) /\ \A i \in 1..Len(a) : a[i] = b[i]

\* This run's current draw is the draw of the iteration the other run waits
\* at the end of, with the same arguments (the sketch value and the context).
SameDraw == other.drawCtx = drawCtx

\* This run's current step is the other run's latest step, with the same
\* arguments (the sketch value, the context, the batch).
SameStep ==
    /\ other.submits = submits
    /\ other.drawCtx = [draw |-> draws, frame |-> context.frame,
                        current_seed |-> context.current_seed,
                        rng |-> context.rng, sketch |-> Unwrap(sketch_bin)]
    /\ other.context.cfg = context.cfg
    /\ other.events = events

\* pipeline.events(): no batch holds the reseed input, and the n-th batch is
\* the same in both runs.
Feed ==
    /\ ~HasReseed(cycle'.events)
    /\ (cycle'.tag = "Some" /\ other.cycle.tag = "Some" /\ other.polled = polled')
           => cycle'.events = other.cycle.events
    /\ UNCHANGED <<detVars, paintVars>>

\* Canvas::draw inside the sketch's draw: the same calls succeed.
DrawCalls ==
    /\ SameDraw => IsPrefix(okCalls', other.okCalls)
    /\ UNCHANGED <<detVars, paintVars>>

\* The sketch's draw returns: the same result for the same arguments.
DrawReturns(ok) ==
    /\ SameDraw => (okCalls = other.okCalls /\ ok = (other.failedOp # "draw"))
    /\ UNCHANGED <<detVars, paintVars>>

\* The sketch's step returns: the same result for the same arguments.
StepReturns ==
    /\ SameStep => /\ (pc' # "done") = (other.failedOp # "step")
                   /\ (pc' # "done") => sketch_bin' = other.sketch_bin
    /\ UNCHANGED <<detVars, paintVars>>

\* The turn passes when the first run has made its first poll, or has reached
\* the end of an iteration's body that the second has yet to make, or has
\* returned after a draw the second has yet to make; and when the second run
\* has made its first poll, or has completed the iteration the first waits at
\* the end of. The other run has not returned.
SwitchDue ==
    /\ other.pc # "done"
    /\ \/ pc = "done" /\ other.draws < draws
       \/ run = 1 /\ pc = "while" /\ other.pc = "new"
       \/ run = 1 /\ pc = "tick" /\ other.iters = iters
       \/ run = 2 /\ pc = "while" /\ other.pc = "while"
       \/ run = 2 /\ pc = "while" /\ other.pc = "tick" /\ iters = other.iters + 1

\* The other run has returned and has made no draw that this run has yet to make.
NothingToCompare == other.pc = "done" /\ other.draws <= draws

\* The turn passes to the other run.
Switch ==
    /\ SwitchDue
    /\ run' = 3 - run
    /\ other' = RunState
    /\ pc' = other.pc
    /\ context' = other.context
    /\ sketch_bin' = other.sketch_bin
    /\ cycle' = other.cycle
    /\ events' = other.events
    /\ canvas' = other.canvas
    /\ okCalls' = other.okCalls
    /\ result' = other.result
    /\ failedOp' = other.failedOp
    /\ polled' = other.polled
    /\ iters' = other.iters
    /\ reseeds' = other.reseeds
    /\ draws' = other.draws
    /\ handed' = other.handed
    /\ submits' = other.submits
    /\ frameSubmit' = other.frameSubmit
    /\ drawCtx' = other.drawCtx
    /\ dirs' = other.dirs
    /\ mkdirs' = other.mkdirs
    /\ saved' = other.saved
    /\ drawn' = other.drawn
    /\ UNCHANGED <<overrides, paintVars>>

NextDet ==
    \/ PipelineNew /\ UNCHANGED <<detVars, paintVars>>
    \/ FirstEvents /\ Feed
    \/ WhileEnter /\ ~SwitchDue /\ ~NothingToCompare /\ UNCHANGED <<detVars, paintVars>>
    \/ WhileExit /\ ~SwitchDue /\ UNCHANGED <<detVars, paintVars>>
    \/ Return /\ UNCHANGED <<detVars, paintVars>>
    \/ NoReseed /\ UNCHANGED <<detVars, paintVars>>
    \/ DrawBegin /\ UNCHANGED <<detVars, paintVars>>
    \/ CanvasDraw /\ DrawCalls
    \/ DrawOk /\ DrawReturns(TRUE)
    \/ DrawErr /\ DrawReturns(FALSE)
    \/ Submit /\ UNCHANGED <<detVars, paintVars>>
    \/ StepDefault /\ StepReturns
    \/ StepOverride /\ StepReturns
    \/ NoCapture /\ UNCHANGED <<detVars, paintVars>>
    \/ CreateDir /\ UNCHANGED <<detVars, paintVars>>
    \/ SaveFrame /\ UNCHANGED <<detVars, paintVars>>
    \/ NextEvents /\ Feed
    \/ NextNone /\ UNCHANGED <<detVars, paintVars>>
    \/ Tick /\ ~SwitchDue /\ UNCHANGED <<detVars, paintVars>>
    \/ Switch

\* Both runs are started with the same explicit seed; random() returns what
\* it will in each.
InitDet ==
    \E c \in SketchCfg, r \in Seeds, r2 \in Seeds :
        /\ IsSome(c.seed)
        /\ InitWith(StartState(c, r), StartState(c, r2))
        /\ NoPaint

SpecDet == InitDet /\ [][NextDet]_vars

(***************************************************************************)
(* Paint (src/src/paint.rs). A Paint value is a producer of path events    *)
(* under zero or more decorators: the impls of lines 18 and 31 take any    *)
(* P: Paint as the decorated value, a decorator included. A paint call on  *)
(* a decorator calls paint on the value it wraps and then commits; a paint *)
(* call on a producer replays a clone of it. The canvas is modelled by the *)
(* commands it receives and its active stroke thickness.                   *)
(***************************************************************************)
\* lyon_path::PathEvent, as matched at lines 46-50; `to` stands for the
\* points the event carries besides its starting point.
PathEventKinds == {"MoveTo", "Line", "Quadratic", "Cubic", "Close"}
Points == {1, 2}
PathEvents == [kind : PathEventKinds, to : Points]
\* The producers: the sequences of at most MaxPath events.
Paths == SeqsUpTo(PathEvents, MaxPath)
\* Stroke thicknesses.
Thicknesses == {1, 2}
\* Filled<D>(D) and Stroked<D> {element, thickness}, without the wrapped value.
Decorators == {[tag |-> "Filled", thickness |-> 0]}
                  \cup {[tag |-> "Stroked", thickness |-> t] : t \in Thicknesses}
\* The Paint values the impls of lines 18, 31 and 39 make constructible.
PaintValues == {PaintValue(d, path) : d \in SeqsUpTo(Decorators, MaxNest), path \in Paths}

\* Lines 45-51: the canvas command of one path event. The starting point of
\* a segment is not passed on, and Close passes nothing.
CommandOf(e) ==
    CASE e.kind = "Line" -> <<"line_to", e.to>>
      [] e.kind = "Quadratic" -> <<"quadratic_to", e.to>>
      [] e.kind = "Cubic" -> <<"cubic_to", e.to>>
      [] e.kind = "MoveTo" -> <<"move_to", e.to>>
      [] e.kind = "Close" -> <<"close">>

\* The canvas after one more command.
Issue(c, cmd) == [c EXCEPT !.cmds = Append(c.cmds, cmd)]
\* The commands the canvas c has received since the outermost call began.
Issued(c) == SubSeq(c.cmds, mark + 1, Len(c.cmds))

\* Line 12: paint(&self, canvas) is called on the value, from outside.
PaintCall ==
    /\ ppc = "idle"
    /\ paints < MaxPaints
    /\ depth' = 0
    /\ mark' = Len(comp.cmds)
    /\ lastRet' = <<>>
    /\ ppc' = "enter"
    /\ UNCHANGED <<painted, comp, iter, paints>>

\* Lines 20 and 33: self.0.paint(comp) / self.element.paint(comp): a
\* decorator's paint calls paint on the value it wraps, before anything else.
PaintInner ==
    /\ ppc = "enter"
    /\ depth < Len(painted.decor)
    /\ depth' = depth + 1
    /\ UNCHANGED <<painted, comp, iter, ppc, paints, mark, lastRet>>

\* A variant of PathClone: for_each runs on the producer itself.
PathNoClone ==
    /\ ppc = "enter"
    /\ depth = Len(painted.decor)
    /\ iter' = painted.path
    /\ painted' = [painted EXCEPT !.path = <<>>]
    /\ ppc' = "replay"
    /\ UNCHANGED <<comp, depth, paints, mark, lastRet>>

\* Line 44: let mut iter = self.clone(); the producer itself is left alone.
PathClone ==
    /\ ppc = "enter"
    /\ depth = Len(painted.decor)
    /\ iter' = painted.path
    /\ ppc' = "replay"
    /\ UNCHANGED <<painted, comp, depth, paints, mark, lastRet>>

\* A variant of PathReplay: an event equal to the one before it is skipped.
PathReplayDedup ==
    /\ ppc = "replay"
    /\ iter # <<>>
    /\ comp' = IF Len(comp.cmds) > mark /\ comp.cmds[Len(comp.cmds)] = CommandOf(Head(iter))
               THEN comp
               ELSE Issue(comp, CommandOf(Head(iter)))
    /\ iter' = Tail(iter)
    /\ UNCHANGED <<painted, depth, ppc, paints, mark, lastRet>>

\* Lines 45-51: for_each takes the next event and issues its command.
PathReplay ==
    /\ ppc = "replay"
    /\ iter # <<>>
    /\ comp' = Issue(comp, CommandOf(Head(iter)))
    /\ iter' = Tail(iter)
    /\ UNCHANGED <<painted, depth, ppc, paints, mark, lastRet>>

\* Lines 51-52: the clone is exhausted; the producer's paint returns.
PathReturn ==
    /\ ppc = "replay"
    /\ iter = <<>>
    /\ lastRet' = Issued(comp)
    /\ ppc' = "unwind"
    /\ UNCHANGED <<painted, comp, iter, depth, paints, mark>>

\* A variant of Fill: the fill is committed twice.
FillTwice ==
    /\ ppc = "unwind"
    /\ depth > 0
    /\ painted.decor[depth].tag = "Filled"
    /\ comp' = Issue(Issue(comp, <<"fill">>), <<"fill">>)
    /\ lastRet' = Issued(comp')
    /\ depth' = depth - 1
    /\ UNCHANGED <<painted, iter, ppc, paints, mark>>

\* Lines 21-22: comp.fill(); Filled's paint returns.
Fill ==
    /\ ppc = "unwind"
    /\ depth > 0
    /\ painted.decor[depth].tag = "Filled"
    /\ comp' = Issue(comp, <<"fill">>)
    /\ lastRet' = Issued(comp')
    /\ depth' = depth - 1
    /\ UNCHANGED <<painted, iter, ppc, paints, mark>>

\* A variant of SetStrokeThickness: the thickness is left as it was.
KeepStrokeThickness ==
    /\ ppc = "unwind"
    /\ depth > 0
    /\ painted.decor[depth].tag = "Stroked"
    /\ ppc' = "stroke"
    /\ UNCHANGED <<painted, comp, iter, depth, paints, mark, lastRet>>

\* Line 34: comp.set_stroke_thickness(self.thickness)
SetStrokeThickness ==
    /\ ppc = "unwind"
    /\ depth > 0
    /\ painted.decor[depth].tag = "Stroked"
    /\ comp' = [Issue(comp, <<"set_stroke_thickness", painted.decor[depth].thickness>>)
                    EXCEPT !.stroke_thickness = Some(painted.decor[depth].thickness)]
    /\ ppc' = "stroke"
    /\ UNCHANGED <<painted, iter, depth, paints, mark, lastRet>>

\* Lines 35-36: comp.stroke(); Stroked's paint returns.
Stroke ==
    /\ ppc = "stroke"
    /\ comp' = Issue(comp, <<"stroke">>)
    /\ lastRet' = Issued(comp')
    /\ depth' = depth - 1
    /\ ppc' = "unwind"
    /\ UNCHANGED <<painted, iter, paints, mark>>

\* The outermost paint call has returned to its caller.
PaintReturn ==
    /\ ppc = "unwind"
    /\ depth = 0
    /\ paints' = paints + 1
    /\ ppc' = "idle"
    /\ UNCHANGED <<painted, comp, iter, depth, mark, lastRet>>

\* The variables of the run loop, which painting leaves alone.
sketchVars == <<pc, context, sketch_bin, overrides, cycle, events, canvas, okCalls,
                result, failedOp, polled, iters, reseeds, draws, handed,
                submits, frameSubmit, drawCtx, dirs, mkdirs, saved, drawn,
                run, other>>

NextPaint ==
    \/ PaintCall /\ UNCHANGED sketchVars
    \/ PaintInner /\ UNCHANGED sketchVars
    \/ PathClone /\ UNCHANGED sketchVars
    \/ PathReplay /\ UNCHANGED sketchVars
    \/ PathReturn /\ UNCHANGED sketchVars
    \/ Fill /\ UNCHANGED sketchVars
    \/ SetStrokeThickness /\ UNCHANGED sketchVars
    \/ Stroke /\ UNCHANGED sketchVars
    \/ PaintReturn /\ UNCHANGED sketchVars

\* Some Paint value and a new canvas; no run of `sketch` is in progress.
InitPaint ==
    /\ LET c == [size |-> 400, root_frame_filename |-> None, seed |-> Some(42)]
       IN InitWith(StartState(c, 42), StartState(c, 42))
    /\ overrides = FALSE
    /\ painted \in PaintValues
    /\ comp = NewComp
    /\ iter = <<>>
    /\ depth = 0
    /\ ppc = "idle"
    /\ paints = 0
    /\ mark = 0
    /\ lastRet = <<>>

SpecPaint == InitPaint /\ [][NextPaint]_vars

(***************************************************************************)
(* Properties of the run loop.                                             *)
(***************************************************************************)
\* The positions of an iteration after the sketch's draw was entered.
AfterDrawBegin == {"drawing", "submit", "step", "capture", "save", "next"}

\* C1: frame_index starts at 0; the end of an iteration (lines 87-88) raises
\* it by exactly 1; every other step leaves it alone, except the reseed of an
\* iteration whose batch holds the reseed input, which sets it to 0.
C1_FrameIndex ==
    /\ context.frame = 0
    /\ [][/\ (pc = "tick" /\ pc' # "tick") => context'.frame = context.frame + 1
          /\ (pc # "tick" /\ context'.frame # context.frame)
                => (pc = "check" /\ HasReseed(events) /\ context'.frame = 0)]_vars

\* Reached: a reseed in the third iteration, and the counter back at 1 after it.
C1_Witness ==
    pc = "while" /\ iters = 3 /\ reseeds = 1 /\ context.frame = 1

\* C2: in an iteration whose batch holds the reseed input, the draw observes
\* frame 0, the freshly drawn seed, the RNG made from it, and the sketch value
\* that seed returned for the context already holding all three.
C2_Reseed ==
    (pc \in AfterDrawBegin /\ HasReseed(events)) =>
        /\ drawCtx.frame = 0
        /\ drawCtx.current_seed = drawn
        /\ drawCtx.rng = FromSeed(drawn)
        /\ drawCtx.sketch = SeededSketch([context EXCEPT !.frame = 0,
                                                         !.current_seed = drawn,
                                                         !.rng = FromSeed(drawn)])
        /\ context.frame = 0
        /\ context.current_seed = drawn
        /\ context.rng = FromSeed(drawn)

\* Reached: draw, draw, reseed, draw, with a seed other than the configured one.
C2_Witness ==
    /\ pc = "drawing" /\ draws = 3 /\ iters = 2 /\ reseeds = 1 /\ HasReseed(events)
    /\ context.cfg.seed = Some(42) /\ drawCtx.current_seed = 7 /\ drawCtx.frame = 0

\* C3 as stated: the run ends only because step gave no continuation or the
\* input source signalled end-of-stream.
C3_TerminatesIff_Original ==
    (pc = "done" /\ failedOp # "new") =>
        (IsNone(sketch_bin) \/ (IsSome(sketch_bin) /\ cycle.tag = "None"))

\* C3 amended: the run ends exactly when step gave no continuation, the input
\* source signalled end-of-stream, or an operation failed: the loop is left in
\* each of these cases and entered again in no other.
C3_TerminatesIff ==
    /\ [](pc \in {"return", "done"} =>
            \/ IsNone(sketch_bin)
            \/ cycle.tag = "None"
            \/ cycle.tag = "Err"
            \/ failedOp # "none")
    /\ [][pc = "while" =>
            IF IsNone(sketch_bin) \/ cycle.tag \in {"None", "Err"}
            THEN pc' \in {"while", "return"}
            ELSE pc' \in {"while", "check"}]_vars
    /\ [][(pc = "step" /\ IsNone(sketch_bin') /\ pc' # "done") =>
            (polled' = polled /\ draws' = draws)]_vars
    /\ [](IsNone(sketch_bin) => pc \in {"capture", "save", "next", "tick", "while",
                                        "return", "done"})
    /\ []((pc = "while" /\ IsNone(sketch_bin)) => cycle.tag = "None")

\* Reached: the loop was left because step gave no continuation, while the
\* input source still had a batch to give.
C3_Witness ==
    pc = "done" /\ result = "Ok" /\ IsNone(sketch_bin) /\ polled = 2 /\ iters = 2

\* C4: a failure of any operation ends the run at once with Err as its result:
\* nothing runs after it, and a failed poll leads to the return with no reseed,
\* draw, submit, step or capture in between.
C4_FailureIsFatal ==
    /\ [](failedOp # "none" => (pc = "done" /\ result = "Err"))
    /\ [](pc = "done" => result \in {"Ok", "Err"})
    /\ [][pc # "done"]_vars
    /\ [][result = "Err" => result' = "Err"]_vars
    /\ [](cycle.tag = "Err" => pc \in {"while", "tick", "return", "done"})
    /\ []((cycle.tag = "Err" /\ pc = "done") => result = "Err")

\* Reached: the second frame's submission failed and the run returned Err.
C4_Witness ==
    /\ pc = "done" /\ result = "Err" /\ failedOp = "submit"
    /\ draws = 2 /\ handed = 2 /\ submits = 1 /\ iters = 1

\* C5: the run returns Ok exactly when no operation failed, and then it ended
\* by end-of-stream or because step gave no continuation; end-of-stream at the
\* first poll returns Ok with no draw, submission or capture.
C5_Success ==
    pc = "done" =>
        /\ (result = "Ok") <=> (failedOp = "none")
        /\ (result = "Ok") <=> (cycle.tag = "None" /\ failedOp \notin
               {"new", "seed", "draw", "submit", "step", "create_dir", "save_frame"})
        /\ (result = "Ok" /\ polled = 0) =>
               (draws = 0 /\ handed = 0 /\ submits = 0 /\ mkdirs = 0 /\ saved = <<>>)
        /\ (cycle.tag = "Err") => (result = "Err")

\* Reached: end-of-stream at the first poll.
C5_Witness ==
    pc = "done" /\ result = "Ok" /\ polled = 0 /\ draws = 0 /\ cycle.tag = "None"

\* C6: frames never overlap: no canvas is alive when a draw begins, every
\* canvas made has been handed to the backend before the next draw begins,
\* each at most once, and a submission holds only entries made for its canvas.
C6_NoOverlap ==
    /\ (pc \notin {"drawing", "submit"}) => IsNone(canvas)
    /\ (pc \in {"drawing", "submit"}) => (IsSome(canvas) /\ handed = draws - 1)
    /\ (pc \in {"new", "events", "while", "check", "draw", "return"}) =>
           (handed = draws /\ submits = draws)
    /\ handed <= draws /\ draws <= handed + 1
    /\ submits <= handed /\ handed <= submits + 1
    /\ IsSome(canvas) =>
           \A i \in 1..Len(Unwrap(canvas).queue) : Unwrap(canvas).queue[i][2].canvas = draws
    /\ \A i \in 1..Len(frameSubmit.queue) :
           frameSubmit.queue[i][2].canvas = frameSubmit.canvas
    /\ (pc \in {"step", "capture", "save", "next", "tick"}) => frameSubmit.canvas = draws

\* Reached: the second frame's two entries were submitted as the second submission.
C6_Witness ==
    /\ pc = "step" /\ draws = 2 /\ submits = 2
    /\ Len(frameSubmit.queue) = 2 /\ frameSubmit.canvas = 2

\* The entries a canvas holds after the successful calls `calls` of
\* Canvas::draw on canvas number n.
EntriesOf(calls, n) ==
    [i \in 1..Len(calls) |-> <<calls[i][1], Tessellate(calls[i][2], calls[i][1], n)>>]

\* C7: a canvas holds, and drain hands over, exactly one entry per successful
\* Canvas::draw call, in call order, each paired with its call's shader; the
\* drain consumes the canvas.
C7_Drain ==
    /\ IsSome(canvas) => Unwrap(canvas).queue = EntriesOf(okCalls, draws)
    /\ (pc \in {"step", "capture", "save", "next", "tick"}) =>
           (frameSubmit.queue = EntriesOf(okCalls, draws) /\ IsNone(canvas))

\* Reached: two calls with different shaders, drained in call order.
C7_Witness ==
    /\ pc = "step" /\ okCalls = <<<<"s2", "square">>, <<"s1", "square">>>>
    /\ frameSubmit.queue[1][1] = "s2" /\ frameSubmit.queue[2][1] = "s1"

\* C8: with a configured seed and no reseed input so far, current_seed is the
\* configured seed, frame_index is the number of completed iterations, and at
\* the loop head that is also the number of submitted draw queues.
C8_ExplicitSeed ==
    (IsSome(context.cfg.seed) /\ reseeds = 0) =>
        /\ context.current_seed = Unwrap(context.cfg.seed)
        /\ context.frame = iters
        /\ (pc \in {"while", "return"} \/ (pc = "done" /\ result = "Ok")) =>
               (submits = iters /\ draws = iters)

\* Reached: seed 42, three completed iterations, three submissions.
C8_Witness ==
    /\ pc = "while" /\ context.cfg.seed = Some(42) /\ reseeds = 0
    /\ iters = 3 /\ context.frame = 3 /\ context.current_seed = 42 /\ submits = 3

\* The capture directory of the current seed.
CaptureDir == SavesDir(Unwrap(context.cfg.root_frame_filename), context.current_seed)

\* C10: with capture configured, each iteration whose step succeeded calls
\* create_dir_all for {root}/{current_seed}/ and then saves the frame under
\* the frame index and seed its draw observed; without capture configured
\* neither ever happens.
C10_Capture ==
    /\ IsNone(context.cfg.root_frame_filename) =>
           (mkdirs = 0 /\ dirs = {} /\ saved = <<>> /\ pc # "save")
    /\ (IsSome(context.cfg.root_frame_filename) /\ pc = "save") =>
           (mkdirs = submits /\ Len(saved) = submits - 1 /\ CaptureDir \in dirs)
    /\ (IsSome(context.cfg.root_frame_filename) /\ pc \in {"next", "tick"}) =>
           /\ mkdirs = submits
           /\ Len(saved) = submits
           /\ saved[Len(saved)] = <<SavesDir(Unwrap(context.cfg.root_frame_filename),
                                             drawCtx.current_seed), drawCtx.frame>>
           /\ saved[Len(saved)][1] \in dirs
           /\ drawCtx.current_seed = context.current_seed
    /\ (IsSome(context.cfg.root_frame_filename) /\ pc \in {"while", "check", "draw",
                                                           "drawing", "submit", "return"}) =>
           (mkdirs = iters /\ Len(saved) = iters)

\* Reached: two frames saved into one directory made twice, the second after
\* a step that gave no continuation.
C10_Witness ==
    /\ pc = "next" /\ IsNone(sketch_bin) /\ mkdirs = 2 /\ Cardinality(dirs) = 1
    /\ saved = <<<<CaptureDir, 0>>, <<CaptureDir, 1>>>>

\* C9: of two runs with the same explicit seed and the same batches, none
\* holding the reseed input, each passes to its n-th draw and its n-th
\* step the context the other passed, and hands the backend the queue the
\* other handed it.
C9_Determinism ==
    (reseeds = 0 /\ other.reseeds = 0) =>
        /\ (pc \in AfterDrawBegin /\ other.drawCtx.draw = draws) => drawCtx = other.drawCtx
        /\ (pc = "step" /\ other.drawCtx.draw = draws /\ other.submits = submits) =>
               /\ context.frame = other.drawCtx.frame
               /\ context.current_seed = other.drawCtx.current_seed
               /\ context.rng = other.drawCtx.rng
               /\ events = other.events
        /\ (pc \in {"step", "capture", "save", "next", "tick"}
               /\ other.frameSubmit.canvas = frameSubmit.canvas) =>
               frameSubmit.queue = other.frameSubmit.queue

\* Reached: the second run has handed over its second queue, as the first
\* run did, after random() returned different values in the two runs.
C9_Witness ==
    /\ run = 2 /\ reseeds = 0 /\ other.reseeds = 0 /\ drawn # other.drawn
    /\ pc = "step" /\ handed = 2 /\ other.handed = 2
    /\ Len(frameSubmit.queue) = 2 /\ other.pc = "tick"

\* C11 as stated: a run of a sketch with the default step ends only when the
\* input source signalled end-of-stream.
C11_DefaultStep_Original ==
    (~overrides /\ pc = "done" /\ failedOp # "new") =>
        (cycle.tag = "None" /\ failedOp = "none")

\* C11 amended: a sketch with the default step never ends the run on its own:
\* its step returns the sketch it was called on and never fails, the slot is
\* never empty, every batch the input source yields starts an iteration, and a
\* run that ends without a failure ended by end-of-stream from the source.
C11_DefaultStep ==
    /\ [](~overrides => IsSome(sketch_bin))
    /\ [][(~overrides /\ pc = "step") =>
             (pc' \in {"step", "capture"} /\ sketch_bin' = sketch_bin
                  /\ failedOp' = "none")]_vars
    /\ [][(~overrides /\ pc = "while" /\ cycle.tag = "Some") =>
             pc' \in {"while", "check"}]_vars
    /\ []((~overrides /\ pc = "done" /\ failedOp = "none") =>
             (result = "Ok" /\ cycle.tag = "None" /\ iters = polled))
    /\ []((~overrides /\ failedOp \notin {"none", "new"}) =>
             failedOp \in {"events", "seed", "draw", "submit", "create_dir", "save_frame"})

\* Reached: the default step, three batches, three iterations, then
\* end-of-stream and Ok.
C11_Witness ==
    /\ ~overrides /\ pc = "done" /\ result = "Ok" /\ cycle.tag = "None"
    /\ polled = 3 /\ iters = 3 /\ IsSome(sketch_bin)

\* C16: when the sketch's draw fails the run ends at once: the canvas it was
\* building is dropped and never handed to the backend, and no step, capture,
\* poll or increment follows; what the backend receives is always the whole
\* queue of a canvas whose draw returned Ok.
C16_FrameAtomic ==
    /\ [](failedOp = "draw" =>
            /\ pc = "done" /\ result = "Err"
            /\ IsNone(canvas)
            /\ handed = draws - 1 /\ submits = draws - 1 /\ iters = draws - 1
            /\ frameSubmit.canvas # draws
            /\ mkdirs <= iters /\ Len(saved) <= iters)
    /\ [][failedOp' = "draw" =>
            /\ (pc = "drawing" \/ failedOp = "draw")
            /\ handed' = handed /\ submits' = submits /\ frameSubmit' = frameSubmit
            /\ sketch_bin' = sketch_bin /\ mkdirs' = mkdirs /\ saved' = saved
            /\ polled' = polled /\ context' = context]_vars
    /\ [][handed' # handed =>
            /\ pc = "submit" /\ failedOp = "none" /\ IsSome(canvas)
            /\ frameSubmit' = [canvas |-> draws, queue |-> Unwrap(canvas).queue]]_vars
    /\ [][(pc' = "submit" /\ pc # "submit") =>
            (pc = "drawing" /\ failedOp' = "none" /\ canvas' = canvas)]_vars

\* Reached: the second draw failed after one successful Canvas::draw call;
\* one queue was submitted and one frame captured, both of the first frame.
C16_Witness ==
    /\ failedOp = "draw" /\ pc = "done" /\ draws = 2 /\ handed = 1 /\ Len(okCalls) = 1
    /\ IsSome(context.cfg.root_frame_filename) /\ mkdirs = 1 /\ Len(saved) = 1

C18_SeedAndRng ==
    /\ [](context.rng = FromSeed(context.current_seed))
    /\ [][(context'.current_seed # context.current_seed \/ context'.rng # context.rng) =>
            /\ pc = "check" /\ HasReseed(events)
            /\ context'.current_seed = drawn'
            /\ context'.rng = FromSeed(drawn')]_vars
    /\ [][context'.cfg = context.cfg]_vars
    /\ []((pc \in AfterDrawBegin) =>
            (drawCtx.rng = FromSeed(drawCtx.current_seed)
                 /\ drawCtx.current_seed = context.current_seed))
    /\ []((pc \in AfterDrawBegin /\ HasReseed(events)) =>
            drawCtx.sketch.seed = context.current_seed)

\* Reached: a step after a reseed that replaced the configured seed 42 by 7.
C18_Witness ==
    /\ pc = "step" /\ HasReseed(events) /\ context.cfg.seed = Some(42)
    /\ context.current_seed = 7 /\ context.rng = FromSeed(7) /\ iters = 1

\* C19: once step gave no continuation nothing more is polled, reseeded,
\* drawn, submitted or stepped, and the slot holds a sketch wherever seed,
\* draw or step is called on it.
C19_SlotNeverEmpty ==
    /\ [](pc \in {"check", "draw", "drawing", "submit", "step"} => IsSome(sketch_bin))
    /\ [][IsNone(sketch_bin) =>
            /\ sketch_bin' = sketch_bin
            /\ polled' = polled /\ reseeds' = reseeds /\ draws' = draws
            /\ handed' = handed /\ submits' = submits
            /\ context'.current_seed = context.current_seed
            /\ pc' \in {"capture", "save", "next", "tick", "while", "return", "done"}]_vars
    /\ []((IsNone(sketch_bin) /\ pc \in {"tick", "while", "return"}) => cycle.tag = "None")

\* Reached: step gave no continuation in the first iteration, whose batch
\* held the reseed input; the loop was left with two batches never polled.
C19_Witness ==
    /\ pc = "return" /\ IsNone(sketch_bin) /\ polled = 1 /\ iters = 1 /\ reseeds = 1
    /\ draws = 1 /\ handed = 1

\* C20: with capture configured every save appends one frame under the
\* current seed's directory, with index 0 for the first frame and for the
\* frame of a reseed and otherwise the index after the one saved before, in
\* the same directory; a run that ends without failure has saved as many
\* frames as it submitted, the frame of the iteration whose step gave no
\* continuation included.
C20_SavedFrames ==
    /\ [][saved' # saved =>
            /\ pc = "save"
            /\ Len(saved') = Len(saved) + 1
            /\ SubSeq(saved', 1, Len(saved)) = saved
            /\ saved'[Len(saved')][1] = CaptureDir
            /\ IF saved = <<>> \/ HasReseed(events)
               THEN saved'[Len(saved')][2] = 0
               ELSE /\ saved'[Len(saved')][2] = saved[Len(saved)][2] + 1
                    /\ saved'[Len(saved')][1] = saved[Len(saved)][1]]_vars
    /\ []((IsSome(context.cfg.root_frame_filename) /\ pc = "done" /\ result = "Ok") =>
            (Len(saved) = submits /\ submits = draws /\ mkdirs = submits))
    /\ []((IsSome(context.cfg.root_frame_filename) /\ pc = "tick") => Len(saved) = submits)

\* Reached: frames 0 and 1 under the configured seed, then a reseed and
\* frame 0 under the new seed, saved in the iteration whose step ended the run.
C20_Witness ==
    /\ pc = "done" /\ result = "Ok" /\ IsNone(sketch_bin) /\ submits = 3
    /\ saved = <<<<SavesDir("out", 42), 0>>, <<SavesDir("out", 42), 1>>,
                 <<SavesDir("out", 7), 0>>>>

(***************************************************************************)
(* Properties of Paint.                                                    *)
(***************************************************************************)
\* Lines 45-51 over a whole producer: one command per event, in event order.
PathCommands(path) == [i \in 1..Len(path) |-> CommandOf(path[i])]
\* The number of commands of cmds that are one of `kinds`.
CountOf(cmds, kinds) == Cardinality({i \in 1..Len(cmds) : cmds[i][1] \in kinds})
\* The decorator whose paint is in progress.
Decorator == painted.decor[depth]

\* C12: when the paint of a Filled returns, the canvas has received what it
\* had received when the paint of the wrapped value returned and then one
\* fill, nothing else; a Filled raw path issues the path's commands and one
\* fill, no stroke, and leaves the stroke thickness alone.
C12_Filled ==
    /\ [][(ppc = "unwind" /\ depth > 0 /\ Decorator.tag = "Filled" /\ depth' # depth) =>
             /\ lastRet = Issued(comp)
             /\ lastRet' = Append(lastRet, <<"fill">>)
             /\ comp'.cmds = Append(comp.cmds, <<"fill">>)]_vars
    /\ []((Len(painted.decor) = 1 /\ painted.decor[1].tag = "Filled") =>
             /\ CountOf(comp.cmds, {"stroke", "set_stroke_thickness"}) = 0
             /\ comp.stroke_thickness = None
             /\ (ppc = "unwind" /\ depth = 0) =>
                    /\ Issued(comp) = PathCommands(painted.path) \o <<<<"fill">>>>
                    /\ CountOf(Issued(comp), {"fill"}) = 1)

\* Reached: a Filled path of two events was painted: two commands and a fill.
C12_Witness ==
    /\ painted.decor = <<[tag |-> "Filled", thickness |-> 0]>>
    /\ ppc = "idle" /\ paints = 1
    /\ comp.cmds = <<<<"move_to", 1>>, <<"line_to", 2>>, <<"fill">>>>

\* C13: when the paint of a Stroked returns, the canvas has received what it
\* had received when the paint of the element returned, then the thickness
\* set to the Stroked's thickness, then one stroke, with nothing in between;
\* a Stroked raw path issues no fill.
C13_Stroked ==
    /\ [][(ppc = "unwind" /\ depth > 0 /\ Decorator.tag = "Stroked" /\ ppc' # ppc) =>
             /\ lastRet = Issued(comp)
             /\ ppc' = "stroke"
             /\ comp'.cmds = Append(comp.cmds, <<"set_stroke_thickness", Decorator.thickness>>)
             /\ comp'.stroke_thickness = Some(Decorator.thickness)]_vars
    /\ [][(ppc = "stroke" /\ ppc' # ppc) =>
             /\ comp.stroke_thickness = Some(Decorator.thickness)
             /\ comp.cmds[Len(comp.cmds)] = <<"set_stroke_thickness", Decorator.thickness>>
             /\ comp'.cmds = Append(comp.cmds, <<"stroke">>)
             /\ comp'.stroke_thickness = comp.stroke_thickness
             /\ lastRet' = lastRet \o <<<<"set_stroke_thickness", Decorator.thickness>>,
                                        <<"stroke">>>>]_vars
    /\ []((Len(painted.decor) = 1 /\ painted.decor[1].tag = "Stroked") =>
             /\ CountOf(comp.cmds, {"fill"}) = 0
             /\ (ppc = "unwind" /\ depth = 0) =>
                    /\ Issued(comp) = PathCommands(painted.path)
                           \o <<<<"set_stroke_thickness", painted.decor[1].thickness>>,
                                <<"stroke">>>>
                    /\ CountOf(Issued(comp), {"stroke"}) = 1)

\* Reached: a path stroked at thickness 2 was painted.
C13_Witness ==
    /\ painted.decor = <<[tag |-> "Stroked", thickness |-> 2]>>
    /\ ppc = "idle" /\ paints = 1 /\ comp.stroke_thickness = Some(2)
    /\ comp.cmds = <<<<"move_to", 1>>, <<"close">>, <<"set_stroke_thickness", 2>>, <<"stroke">>>>

\* C14: a paint call issues at most one terminal commit, and nothing of a
\* decorator wrapping a decorator is ever committed.
C14_SingleLevel ==
    /\ CountOf(Issued(comp), {"fill", "stroke"}) <= 1
    /\ Len(painted.decor) > 1 => CountOf(comp.cmds, {"fill", "stroke"}) = 0

\* C15: painting a raw producer issues one command per event, in event
\* order and of the event's kind, and no fill, stroke or thickness; the
\* producer is left as it was, and painting it again issues the same again.
C15_RawPath ==
    painted.decor = <<>> =>
        /\ CountOf(comp.cmds, {"fill", "stroke", "set_stroke_thickness"}) = 0
        /\ comp.stroke_thickness = None
        /\ ppc = "replay" => Issued(comp) \o PathCommands(iter) = PathCommands(painted.path)
        /\ ppc \in {"unwind", "idle"} /\ mark + paints > 0 =>
               Issued(comp) = PathCommands(painted.path)
        /\ (ppc = "idle" /\ paints = 1) => comp.cmds = PathCommands(painted.path)
        /\ (ppc = "idle" /\ paints = 2) =>
               comp.cmds = PathCommands(painted.path) \o PathCommands(painted.path)
        /\ \A i \in 1..Len(comp.cmds) :
               \E e \in PathEvents : e.kind = CASE comp.cmds[i][1] = "move_to" -> "MoveTo"
                                               [] comp.cmds[i][1] = "line_to" -> "Line"
                                               [] comp.cmds[i][1] = "quadratic_to" -> "Quadratic"
                                               [] comp.cmds[i][1] = "cubic_to" -> "Cubic"
                                               [] comp.cmds[i][1] = "close" -> "Close"
                                               [] OTHER -> "none"

\* Reached: a producer of two equal events was painted twice: four commands.
C15_Witness ==
    /\ painted = PaintValue(<<>>, <<[kind |-> "Line", to |-> 1], [kind |-> "Line", to |-> 1]>>)
    /\ ppc = "idle" /\ paints = 2
    /\ comp.cmds = <<<<"line_to", 1>>, <<"line_to", 1>>, <<"line_to", 1>>, <<"line_to", 1>>>>

=============================================================================
